---- MODULE Spec2Model ----
(***************************************************************************)
(* A model of the observation and reduction scripts of katsdpscripts:      *)
(*   RTS/2.4-Gain_Curve/gain_curve.py      (the gain curve reduction)      *)
(*   RTS/2.8-Strong_Sources/analyse_noise_diode.py                         *)
(*   peak_finder.py, ops/baseline_cal_scan.py, ops/simscan.py              *)
(* Every script is a top-to-bottom procedure; a run is one script with one *)
(* command line, one input table and one behaviour of the control library. *)
(***************************************************************************)
EXTENDS Integers, Sequences, FiniteSets, TLC

(***************************************************************************)
(* Floating point values.  A value is a record [n, d]: the rational n/d in *)
(* lowest terms with d > 0, or one of the three IEEE specials, which have  *)
(* d = 0:  0/0 is NaN, 1/0 is +Inf, -1/0 is -Inf.  Rounding is not         *)
(* modelled: the inputs are chosen so that the results are exact.          *)
(***************************************************************************)
Abs(i) == IF i < 0 THEN -i ELSE i

Sign(i) == IF i < 0 THEN -1 ELSE IF i > 0 THEN 1 ELSE 0

RECURSIVE GCD(_, _)
GCD(a, b) == IF b = 0 THEN a ELSE GCD(b, a % b)

Q(n, d) ==
    LET g == GCD(Abs(n), Abs(d))
    IN  IF d = 0 THEN [n |-> Sign(n), d |-> 0]
        ELSE [n |-> Sign(d) * (n \div g), d |-> Abs(d) \div g]

Num(i) == [n |-> i, d |-> 1]

NaN == [n |-> 0, d |-> 0]

Inf == [n |-> 1, d |-> 0]

IsNaN(x) == x.d = 0 /\ x.n = 0

IsFinite(x) == x.d # 0

IsZero(x) == x.d # 0 /\ x.n = 0

\* x / y as numpy divides floats: x/0 is +-Inf, 0/0 and Inf/Inf are NaN.
FDiv(x, y) ==
    IF IsNaN(x) \/ IsNaN(y) THEN NaN
    ELSE IF x.d = 0 /\ y.d = 0 THEN NaN
    ELSE IF x.d = 0 THEN [n |-> x.n * (IF y.n < 0 THEN -1 ELSE 1), d |-> 0]
    ELSE IF y.d = 0 THEN Num(0)
    ELSE Q(x.n * y.d, x.d * y.n)

FMul(x, y) ==
    IF IsNaN(x) \/ IsNaN(y) THEN NaN
    ELSE IF x.d = 0 \/ y.d = 0 THEN [n |-> Sign(x.n) * Sign(y.n), d |-> 0]
    ELSE Q(x.n * y.n, x.d * y.d)

FAdd(x, y) ==
    IF IsNaN(x) \/ IsNaN(y) THEN NaN
    ELSE IF x.d = 0 /\ y.d = 0 THEN (IF x.n = y.n THEN x ELSE NaN)
    ELSE IF x.d = 0 THEN x
    ELSE IF y.d = 0 THEN y
    ELSE Q(x.n * y.d + y.n * x.d, x.d * y.d)

FNeg(x) == [n |-> -x.n, d |-> x.d]

FSub(x, y) == FAdd(x, FNeg(y))

\* x < y: False whenever an operand is NaN.
FLt(x, y) ==
    IF IsNaN(x) \/ IsNaN(y) THEN FALSE
    ELSE IF x.d = 0 /\ y.d = 0 THEN x.n < y.n
    ELSE IF x.d = 0 THEN x.n < 0
    ELSE IF y.d = 0 THEN y.n > 0
    ELSE x.n * y.d < y.n * x.d

FGt(x, y) == FLt(y, x)

\* The largest k with k * k <= i.
RECURSIVE ISqrtFrom(_, _)
ISqrtFrom(i, k) == IF (k + 1) * (k + 1) > i THEN k ELSE ISqrtFrom(i, k + 1)

\* np.sqrt: NaN for a negative operand; exact on the squares of rationals.
FSqrt(x) ==
    IF IsNaN(x) THEN NaN
    ELSE IF x.n < 0 THEN NaN
    ELSE IF x.d = 0 THEN Inf
    ELSE Q(ISqrtFrom(x.n * x.d, 0), x.d)

(***************************************************************************)
(* Strings whose characters the code looks at are sequences of characters. *)
(***************************************************************************)
\* Python's  s in t  for two strings: s occurs in t as a substring.
StrContains(t, s) ==
    \E i \in 0..(Len(t) - Len(s)) : SubSeq(t, i + 1, i + Len(s)) = s

\* t.split(','): the pieces of t between its commas.
RECURSIVE SplitFrom(_, _, _)
SplitFrom(t, i, cur) ==
    IF i > Len(t) THEN <<cur>>
    ELSE IF t[i] = "," THEN <<cur>> \o SplitFrom(t, i + 1, <<>>)
    ELSE SplitFrom(t, i + 1, Append(cur, t[i]))

Split(t) == SplitFrom(t, 1, <<>>)

SeqRange(s) == {s[i] : i \in DOMAIN s}

\* A Python container: a str (its characters) or a list (its elements).
Str(s) == [str |-> s]

List(l) == [list |-> l]

\* x in c: the substring test for a str, the membership test for a list.
PyIn(x, c) ==
    IF "str" \in DOMAIN c THEN StrContains(c.str, x) ELSE x \in SeqRange(c.list)

\* a[mask]: the elements of a at the positions where mask is True, in order.
RECURSIVE SelectFrom(_, _, _)
SelectFrom(a, mask, i) ==
    IF i > Len(a) THEN <<>>
    ELSE (IF mask[i] THEN <<a[i]>> ELSE <<>>) \o SelectFrom(a, mask, i + 1)

Select(a, mask) == SelectFrom(a, mask, 1)

\* Optional values: Python's None, or a value.
None == [isNone |-> TRUE]

Some(x) == [isNone |-> FALSE, v |-> x]

(***************************************************************************)
(* Angles.  katpoint.deg2rad(x) is x * pi / 180, kept as the record        *)
(* [pi180 |-> x].  np.sin is a table over the elevations of the model,     *)
(* rounded to four decimals: sin(90 deg) = 1, sin(30 deg) = 0.5,           *)
(* sin(19.47 deg) = 0.3333, sin(14.48 deg) = 0.2500.                       *)
(***************************************************************************)
deg2rad(x) == [pi180 |-> x]

El90 == Num(90)

El30 == Num(30)

El19 == Q(1947, 100)

El14 == Q(362, 25)

Elevations == {El14, El19, El30, El90}

Sin(a) ==
    CASE a.pi180 = El90 -> Num(1)
      [] a.pi180 = El30 -> Q(1, 2)
      [] a.pi180 = El19 -> Q(1, 3)
      [] a.pi180 = El14 -> Q(1, 4)

(***************************************************************************)
(* Logarithms and exponentials are kept exact.  The logarithm of a         *)
(* positive real is a vector of rational coefficients over the basis       *)
(* 1, ln 2, ln 3, ln 5, ln 7, ln 11 (linearly independent over the         *)
(* rationals), with ok = FALSE for a NaN or infinite result; np.exp of     *)
(* such a vector is the record [exp |-> vector].                           *)
(***************************************************************************)
Primes == <<2, 3, 5, 7, 11>>

VDim == Len(Primes) + 1

VZero == [i \in 1..VDim |-> Num(0)]

LogNaN == [ok |-> FALSE, v |-> VZero]

LV(v) == [ok |-> TRUE, v |-> v]

\* The vector c1 * 1 + c2 * ln 2.
LV2(c1, c2) == LV([i \in 1..VDim |-> IF i = 1 THEN c1 ELSE IF i = 2 THEN c2 ELSE Num(0)])

VAdd(a, b) ==
    IF a.ok /\ b.ok THEN LV([i \in 1..VDim |-> FAdd(a.v[i], b.v[i])]) ELSE LogNaN

VScale(q, a) ==
    IF a.ok /\ IsFinite(q) THEN LV([i \in 1..VDim |-> FMul(q, a.v[i])]) ELSE LogNaN

VNeg(a) == VScale(Num(-1), a)

RECURSIVE PrimeExp(_, _)
PrimeExp(i, p) == IF i % p = 0 THEN 1 + PrimeExp(i \div p, p) ELSE 0

RECURSIVE Pow(_, _)
Pow(b, k) == IF k = 0 THEN 1 ELSE b * Pow(b, k - 1)

\* What is left of i once its powers of the basis primes are divided out.
RECURSIVE Residue(_, _)
Residue(i, k) ==
    IF k > Len(Primes) THEN i
    ELSE Residue(i \div Pow(Primes[k], PrimeExp(i, Primes[k])), k + 1)

\* np.log of a positive rational whose prime factors are in the basis.
LogRat(x) ==
    IF ~IsFinite(x) \/ x.n <= 0 THEN LogNaN
    ELSE IF Residue(x.n, 1) # 1 \/ Residue(x.d, 1) # 1
         THEN CHOOSE l \in {} : TRUE
    ELSE LV([i \in 1..VDim |->
              IF i = 1 THEN Num(0)
              ELSE Num(PrimeExp(x.n, Primes[i - 1]) - PrimeExp(x.d, Primes[i - 1]))])

IsExp(x) == "exp" \in DOMAIN x

Exp(l) == [exp |-> l]

Log(x) == IF IsExp(x) THEN x.exp ELSE LogRat(x)

RECURSIVE FSum(_)
FSum(s) == IF s = <<>> THEN Num(0) ELSE FAdd(Head(s), FSum(Tail(s)))

RECURSIVE VSum(_)
VSum(s) == IF s = <<>> THEN LV(VZero) ELSE VAdd(Head(s), VSum(Tail(s)))

(***************************************************************************)
(* np.polyfit(x, y, 1): the least squares line through the points, as      *)
(* [slope, intercept].  When all the x are equal the system has rank 1 and *)
(* lstsq returns the solution of least norm of the column scaled system:   *)
(* slope = mean(y) / (2 x), intercept = mean(y) / 2.  The y are vectors    *)
(* (logarithms); the x are rationals.  x must not be empty.                *)
(***************************************************************************)
polyfit1(x, y) ==
    LET n   == Num(Len(x))
        Sx  == FSum(x)
        Sxx == FSum([i \in DOMAIN x |-> FMul(x[i], x[i])])
        Sy  == VSum(y)
        den == FSub(FMul(n, Sxx), FMul(Sx, Sx))
        w(i) == FDiv(FSub(FMul(n, x[i]), Sx), den)
        slope == IF IsZero(den)
                 THEN VScale(FDiv(Num(1), FMul(FMul(Num(2), x[1]), n)), Sy)
                 ELSE VSum([i \in DOMAIN x |-> VScale(w(i), y[i])])
        icept == IF IsZero(den)
                 THEN VScale(FDiv(Num(1), FMul(Num(2), n)), Sy)
                 ELSE VScale(FDiv(Num(1), n), VAdd(Sy, VNeg(VScale(Sx, slope))))
    IN  <<slope, icept>>

\* np.median of a sample of numbers: NaN for an empty sample.
RECURSIVE Insert(_, _)
Insert(s, x) ==
    IF s = <<>> THEN <<x>>
    ELSE IF FLt(x, Head(s)) THEN <<x>> \o s
    ELSE <<Head(s)>> \o Insert(Tail(s), x)

RECURSIVE Sort(_)
Sort(s) == IF s = <<>> THEN <<>> ELSE Insert(Sort(Tail(s)), Head(s))

median(s) ==
    LET t == Sort(s)
        k == Len(s)
    IN  IF k = 0 THEN NaN
        ELSE IF k % 2 = 1 THEN t[(k + 1) \div 2]
        ELSE FDiv(FAdd(t[k \div 2], t[k \div 2 + 1]), Num(2))

(***************************************************************************)
(* Python 2 numbers: an int or a float.  x / y floors when both are ints.  *)
(***************************************************************************)
PyInt(i) == [int |-> TRUE, v |-> Num(i)]

PyFloat(x) == [int |-> FALSE, v |-> x]

Floor(x) == Num(x.n \div x.d)

PyDiv(x, y) ==
    IF x.int /\ y.int THEN [int |-> TRUE, v |-> Floor(FDiv(x.v, y.v))]
    ELSE PyFloat(FDiv(x.v, y.v))

PyMul(x, y) == [int |-> x.int /\ y.int, v |-> FMul(x.v, y.v)]

\* np.pi, a float: rounded to 22/7.
np_pi == PyFloat(Q(22, 7))

(***************************************************************************)
(* gain_curve.py: the functions.  A table is a sequence of rows; a column  *)
(* is the sequence of one field over the rows.  The columns dataset,       *)
(* timestamp_ut and azimuth are read by no computation and are left out.   *)
(***************************************************************************)
Col(data, f) == [i \in DOMAIN data |-> data[i][f]]

parse_csv(file, pol) ==
    LET calc(r) ==
            IF pol = "I"
            THEN [beam |-> FSqrt(FMul(r.beam_height_HH, r.beam_height_VV)),
                  base |-> FSqrt(FMul(r.baseline_height_HH, r.baseline_height_VV))]
            ELSE IF pol = "HH"
            THEN [beam |-> r.beam_height_HH, base |-> r.baseline_height_HH]
            ELSE [beam |-> r.beam_height_VV, base |-> r.baseline_height_VV]
        row(r) ==
            [target |-> r.target, data_unit |-> r.data_unit,
             frequency |-> r.frequency, elevation |-> r.elevation,
             flux |-> r.flux,
             beam_height_HH |-> r.beam_height_HH,
             beam_height_VV |-> r.beam_height_VV,
             baseline_height_HH |-> r.baseline_height_HH,
             baseline_height_VV |-> r.baseline_height_VV,
             calc_beam_height |-> calc(r).beam,
             calc_baseline_height |-> calc(r).base]
    IN  [data |-> [i \in DOMAIN file.rows |-> row(file.rows[i])],
         antenna |-> file.antenna]

\* compute_gain_e with line 108 as  2761 // ant_area : a truncating division.
compute_gain_e_Truncating(data, antenna) ==
    LET gain == [i \in DOMAIN data |->
                    FDiv(data[i].calc_beam_height, data[i].flux)]
        half == PyDiv(antenna.diameter, PyFloat(Num(2)))
        ant_area == PyMul(np_pi, PyMul(half, half))
        k == Floor(FDiv(Num(2761), ant_area.v))
    IN  [gain |-> gain,
         e |-> [i \in DOMAIN data |-> FMul(FMul(gain[i], k), Num(100))]]

compute_gain_e(data, antenna) ==
    LET gain == [i \in DOMAIN data |->
                    FDiv(data[i].calc_beam_height, data[i].flux)]
        half == PyDiv(antenna.diameter, PyFloat(Num(2)))
        ant_area == PyMul(np_pi, PyMul(half, half))
        k == PyDiv(PyInt(2761), ant_area)
    IN  [gain |-> gain,
         e |-> [i \in DOMAIN data |-> FMul(FMul(gain[i], k.v), Num(100))]]

\* compute_tsys_sefd with line 129 as  gain/Tsys .
compute_tsys_sefd_Inverted(data, gain) ==
    LET Tsys == Col(data, "calc_baseline_height")
    IN  [Tsys |-> Tsys,
         SEFD |-> [i \in DOMAIN data |-> FDiv(gain[i], Tsys[i])]]

compute_tsys_sefd(data, gain) ==
    LET Tsys == Col(data, "calc_baseline_height")
    IN  [Tsys |-> Tsys,
         SEFD |-> [i \in DOMAIN data |-> FDiv(Tsys[i], gain[i])]]

\* determine_good_data without line 166, the test for NaN heights.
determine_good_data_NoNaNTest(data, targets, tsys, tsys_lim, eff, eff_lim) ==
    [i \in DOMAIN data |->
        /\ targets.isNone \/ PyIn(data[i].target, targets.v)
        /\ tsys.isNone \/ FLt(tsys.v[i], tsys_lim)
        /\ eff.isNone \/ (FGt(eff.v[i], eff_lim[1]) /\ FLt(eff.v[i], eff_lim[2]))
        /\ data[i].data_unit = "K"]

\* determine_good_data without line 168, the test for units of K.
determine_good_data_NoUnitTest(data, targets, tsys, tsys_lim, eff, eff_lim) ==
    [i \in DOMAIN data |->
        /\ targets.isNone \/ PyIn(data[i].target, targets.v)
        /\ tsys.isNone \/ FLt(tsys.v[i], tsys_lim)
        /\ eff.isNone \/ (FGt(eff.v[i], eff_lim[1]) /\ FLt(eff.v[i], eff_lim[2]))
        /\ ~IsNaN(data[i].calc_beam_height)
        /\ ~IsNaN(data[i].calc_baseline_height)]

\* targets is what the caller hands over: None, a list of names, or (from
\* line 310) the str of the -t option.
determine_good_data(data, targets, tsys, tsys_lim, eff, eff_lim) ==
    [i \in DOMAIN data |->
        /\ targets.isNone \/ PyIn(data[i].target, targets.v)
        /\ tsys.isNone \/ FLt(tsys.v[i], tsys_lim)
        /\ eff.isNone \/ (FGt(eff.v[i], eff_lim[1]) /\ FLt(eff.v[i], eff_lim[2]))
        /\ ~IsNaN(data[i].calc_beam_height)
        /\ ~IsNaN(data[i].calc_baseline_height)
        /\ data[i].data_unit = "K"]

airmass_of(elevation) == [i \in DOMAIN elevation |-> FDiv(Num(1), Sin(elevation[i]))]

\* fit_atmospheric_absorption with line 182 as  tau = fit[0] : the slope, not
\* its negation.
fit_atmospheric_absorption_Slope(gain, elevation) ==
    LET airmass == [i \in DOMAIN elevation |-> FDiv(Num(1), Sin(elevation[i]))]
        fit == polyfit1(airmass, [i \in DOMAIN gain |-> Log(gain[i])])
    IN  <<Exp(fit[2]), fit[1]>>

\* Returns <<g_0, tau>>.  gain must not be empty (np.polyfit raises).
fit_atmospheric_absorption(gain, elevation) ==
    LET airmass == airmass_of(elevation)
        fit == polyfit1(airmass, [i \in DOMAIN gain |-> Log(gain[i])])
        tau == VNeg(fit[1])
        g0  == Exp(fit[2])
    IN  <<g0, tau>>

\* Returns <<tatm, trec>>.  The regressor 1 - exp(-tau * airmass) is not a
\* rational, so the two coefficients of the fit are kept as terms.
fit_atmospheric_emission(tsys, elevation, tau) ==
    LET airmass == airmass_of(elevation)
        fit == [x |-> [i \in DOMAIN airmass |-> [tau |-> tau, airmass |-> airmass[i]]],
                y |-> tsys]
    IN  <<[polyfit |-> fit, coef |-> 0], [polyfit |-> fit, coef |-> 1]>>

\* Line 326: e with the fitted attenuation removed, kept as a term per row.
corrected_efficiency(gain, el, g0, tau, antenna) ==
    [i \in DOMAIN gain |->
        [gain |-> gain[i], g_0 |-> g0, tau |-> tau, el |-> el[i],
         diameter |-> antenna.diameter]]

\* The positions of the rows a mask selects.
Rows(mask) == Select([i \in DOMAIN mask |-> i], mask)

\* The text block of the report.  The standard deviations are irrational;
\* each statistic is kept with the sample it is computed over.
make_result_report(data, good, opts, output_filename, gain, e, g0, tau_, Tsys, SEFD, T_atm, T_rec) ==
    [file |-> output_filename,
     label_el |-> opts.min_elevation,
     rows |-> Rows(good),
     gain_sample |-> Select(gain, good),
     median_gain |-> median(Select(gain, good)),
     e_sample |-> Select(e, good),
     g_0 |-> g0,
     tau |-> tau_,
     has_tsys |-> ~Tsys.isNone,
     tsys_sample |-> IF Tsys.isNone THEN <<>> ELSE Select(Tsys.v, good),
     median_tsys |-> IF Tsys.isNone THEN NaN ELSE median(Select(Tsys.v, good)),
     has_sefd |-> ~SEFD.isNone,
     sefd_sample |-> IF SEFD.isNone THEN <<>> ELSE Select(SEFD.v, good),
     median_sefd |-> IF SEFD.isNone THEN NaN ELSE median(Select(SEFD.v, good)),
     has_emission |-> ~T_rec.isNone /\ ~T_atm.isNone,
     plots_tsys |-> ~opts.interferometric]

(***************************************************************************)
(* The state of one run.                                                   *)
(***************************************************************************)
VARIABLES
    script,       \* the script that runs
    pc,           \* the statement the script is at
    argv,         \* the positional arguments of the command line
    opts,         \* the options of the command line
    file,         \* the content of the input file
    stdout,       \* the messages the script has printed
    exit_status,  \* the exit status of the process, None while it runs
    exc,          \* the exception that ended the run, "none" if none did
    calls,        \* the files read, functions and library calls made, in order
    filename, data, antenna, output_filename,
    gain, e, Tsys, SEFD, good, el, g_0, tau, T_atm, T_rec, report,
    tgt,          \* peak_finder.py: the name tgt of the calling session
    kat,          \* the telescope connection tbuild returned
    session,      \* the capture session: "none", "open" or "closed"
    ip,           \* the statement of the session body that runs next
    clock, start_time, end_time,
    remaining     \* baseline_cal_scan.py: targets the catalogue still yields

gcvars == <<filename, data, antenna, output_filename,
            gain, e, Tsys, SEFD, good, el, g_0, tau, T_atm, T_rec, report>>

ctlvars == <<tgt, kat, session, ip, clock, start_time, end_time, remaining>>

vars == <<script, pc, argv, opts, file, stdout, exit_status, exc, calls, gcvars,
          ctlvars>>

Call(fn, arg, res, rows) == [fn |-> fn, arg |-> arg, res |-> res, rows |-> rows]

\* sys.exit(1) after a printed message.
ExitWith(msg) ==
    /\ stdout' = Append(stdout, msg)
    /\ exit_status' = Some(1)
    /\ pc' = "exited"
    /\ exc' = exc

\* An exception nothing catches: a traceback, and exit status 1.
Raise(exception) ==
    /\ exc' = exception
    /\ exit_status' = Some(1)
    /\ pc' = "crashed"
    /\ stdout' = stdout

Goto(l) ==
    /\ pc' = l
    /\ UNCHANGED <<stdout, exit_status, exc>>

(***************************************************************************)
(* gain_curve.py, lines 293-330, one action per statement.                 *)
(***************************************************************************)
GC_parse_arguments ==
    /\ script = "gain_curve" /\ pc = "parse_arguments"
    /\ IF Len(argv) = 0
       THEN /\ ExitWith("Please specify a csv file")
            /\ UNCHANGED filename
       ELSE /\ filename' = Some(argv[1])
            /\ Goto("parse_csv")
    /\ UNCHANGED <<script, argv, opts, file, calls, data, antenna,
                   output_filename, gain, e, Tsys, SEFD, good, el, g_0, tau,
                   T_atm, T_rec, report, ctlvars>>

GC_parse_csv ==
    /\ script = "gain_curve" /\ pc = "parse_csv"
    /\ LET r == parse_csv(file, opts.polarisation)
       IN  /\ data' = Some(r.data)
           /\ antenna' = Some(r.antenna)
           /\ output_filename' =
                 Some([base |-> opts.outfilebase, antenna |-> r.antenna.name,
                       pol |-> opts.polarisation,
                       freq |-> r.data[1].frequency])
    /\ calls' = Append(calls, Call("open", filename.v, "ok", <<>>))
    /\ Goto("compute_gain_e")
    /\ UNCHANGED <<script, argv, opts, file, filename,
                   gain, e, Tsys, SEFD, good, el, g_0, tau, T_atm, T_rec, report, ctlvars>>

GC_compute_gain_e ==
    /\ script = "gain_curve" /\ pc = "compute_gain_e"
    /\ LET r == compute_gain_e(data.v, antenna.v)
       IN  /\ gain' = Some(r.gain)
           /\ e' = Some(r.e)
    /\ calls' = Append(calls, Call("compute_gain_e", "", "ok", <<>>))
    /\ Goto("compute_tsys_sefd")
    /\ UNCHANGED <<script, argv, opts, file, filename, data, antenna,
                   output_filename, Tsys, SEFD, good, el, g_0, tau, T_atm,
                   T_rec, report, ctlvars>>

\* Lines 304-307 without the test of line 306.
GC_compute_tsys_sefd_Always ==
    /\ script = "gain_curve" /\ pc = "compute_tsys_sefd"
    /\ LET r == compute_tsys_sefd(data.v, gain.v)
       IN  /\ Tsys' = Some(r.Tsys)
           /\ SEFD' = Some(r.SEFD)
           /\ calls' = Append(calls, Call("compute_tsys_sefd", "", "ok", <<>>))
    /\ Goto("determine_good_data")
    /\ UNCHANGED <<script, argv, opts, file, filename, data, antenna,
                   output_filename, gain, e, good, el, g_0, tau, T_atm,
                   T_rec, report, ctlvars>>

\* Lines 304-307.
GC_compute_tsys_sefd ==
    /\ script = "gain_curve" /\ pc = "compute_tsys_sefd"
    /\ IF ~opts.interferometric
       THEN LET r == compute_tsys_sefd(data.v, gain.v)
            IN  /\ Tsys' = Some(r.Tsys)
                /\ SEFD' = Some(r.SEFD)
                /\ calls' = Append(calls, Call("compute_tsys_sefd", "", "ok", <<>>))
       ELSE /\ Tsys' = None
            /\ SEFD' = None
            /\ calls' = calls
    /\ Goto("determine_good_data")
    /\ UNCHANGED <<script, argv, opts, file, filename, data, antenna,
                   output_filename, gain, e, good, el, g_0, tau, T_atm,
                   T_rec, report, ctlvars>>

\* Lines 310-311.
GC_determine_good_data ==
    /\ script = "gain_curve" /\ pc = "determine_good_data"
    /\ good' = Some(determine_good_data(data.v, opts.targets, Tsys, opts.tsys_lim,
                                        e, <<opts.eff_min, opts.eff_max>>))
    /\ calls' = Append(calls, Call("determine_good_data", "", "ok", <<>>))
    /\ Goto("deg2rad")
    /\ UNCHANGED <<script, argv, opts, file, filename, data, antenna,
                   output_filename, gain, e, Tsys, SEFD, el, g_0, tau, T_atm,
                   T_rec, report, ctlvars>>

\* Line 314 (az is used nowhere).
GC_deg2rad ==
    /\ script = "gain_curve" /\ pc = "deg2rad"
    /\ el' = Some([i \in DOMAIN data.v |-> deg2rad(data.v[i].elevation)])
    /\ Goto("fit_atmospheric_absorption")
    /\ UNCHANGED <<script, argv, opts, file, filename, data, antenna, calls,
                   output_filename, gain, e, Tsys, SEFD, good, g_0, tau, T_atm,
                   T_rec, report, ctlvars>>

\* Line 317.  np.polyfit raises TypeError for an empty vector.
GC_fit_atmospheric_absorption ==
    /\ script = "gain_curve" /\ pc = "fit_atmospheric_absorption"
    /\ LET g == Select(gain.v, good.v)
           r == fit_atmospheric_absorption(g, Select(el.v, good.v))
       IN  IF g = <<>>
           THEN /\ Raise("TypeError")
                /\ UNCHANGED <<g_0, tau>>
                /\ calls' = Append(calls, Call("fit_atmospheric_absorption", "",
                                               "TypeError", Rows(good.v)))
           ELSE /\ g_0' = Some(r[1])
                /\ tau' = Some(r[2])
                /\ Goto("fit_atmospheric_emission")
                /\ calls' = Append(calls, Call("fit_atmospheric_absorption", "",
                                               "ok", Rows(good.v)))
    /\ UNCHANGED <<script, argv, opts, file, filename, data, antenna,
                   output_filename, gain, e, Tsys, SEFD, good, el, T_atm,
                   T_rec, report, ctlvars>>

\* Lines 319-322.
GC_fit_atmospheric_emission ==
    /\ script = "gain_curve" /\ pc = "fit_atmospheric_emission"
    /\ IF ~opts.interferometric
       THEN LET r == fit_atmospheric_emission(Select(Tsys.v, good.v),
                                              Select(el.v, good.v), tau.v)
            IN  /\ T_atm' = Some(r[1])
                /\ T_rec' = Some(r[2])
                /\ calls' = Append(calls, Call("fit_atmospheric_emission", "",
                                               "ok", Rows(good.v)))
       ELSE /\ T_atm' = None
            /\ T_rec' = None
            /\ calls' = calls
    /\ Goto("correct_efficiency")
    /\ UNCHANGED <<script, argv, opts, file, filename, data, antenna,
                   output_filename, gain, e, Tsys, SEFD, good, el, g_0, tau,
                   report, ctlvars>>

\* Lines 325-326.
GC_correct_efficiency ==
    /\ script = "gain_curve" /\ pc = "correct_efficiency"
    /\ e' = IF opts.correct_efficiency
            THEN Some(corrected_efficiency(gain.v, el.v, g_0.v, tau.v, antenna.v))
            ELSE e
    /\ Goto("make_result_report")
    /\ UNCHANGED <<script, argv, opts, file, filename, data, antenna, calls,
                   output_filename, gain, Tsys, SEFD, good, el, g_0, tau,
                   T_atm, T_rec, report, ctlvars>>

\* Lines 329-330, and the end of the script.
GC_make_result_report ==
    /\ script = "gain_curve" /\ pc = "make_result_report"
    /\ report' = Some(make_result_report(data.v, good.v, opts, output_filename.v,
                                         gain.v, e.v, g_0.v, tau.v,
                                         Tsys, SEFD, T_atm, T_rec))
    /\ calls' = Append(calls, Call("make_result_report", "", "ok", Rows(good.v)))
    /\ pc' = "done"
    /\ exit_status' = Some(0)
    /\ UNCHANGED <<script, argv, opts, file, filename, data, antenna, stdout,
                   exc, output_filename, gain, e, Tsys, SEFD, good, el, g_0,
                   tau, T_atm, T_rec, ctlvars>>

GainCurve ==
    \/ GC_parse_arguments
    \/ GC_parse_csv
    \/ GC_compute_gain_e
    \/ GC_compute_tsys_sefd
    \/ GC_determine_good_data
    \/ GC_deg2rad
    \/ GC_fit_atmospheric_absorption
    \/ GC_fit_atmospheric_emission
    \/ GC_correct_efficiency
    \/ GC_make_result_report

(***************************************************************************)
(* The control library (katuilib, ffuilib) is not part of the repository:  *)
(* each call of it either returns or raises, and the model takes every     *)
(* outcome.  "ValueError" is the failure tbuild raises for a configuration *)
(* it cannot look up; "Error" stands for any other exception (a lost       *)
(* connection, a timeout).  wait() may also return False on a timeout.     *)
(***************************************************************************)
BuildOutcomes == {"ok", "ValueError", "Error"}

CallOutcomes == {"ok", "Error"}

WaitOutcomes == {"True", "False", "Error"}

Exception(outcome) == IF outcome = "Error" THEN "Error" ELSE outcome

\* Leaving a with block on an exception: the session is closed on the way.
RaiseInSession(exception) ==
    /\ Raise(exception)
    /\ session' = "closed"

(***************************************************************************)
(* peak_finder.py                                                          *)
(***************************************************************************)
\* Lines 38-40.
PF_check_ants ==
    /\ script = "peak_finder" /\ pc = "check_ants"
    /\ IF opts.ants.isNone
       THEN ExitWith("Please specify the antennas")
       ELSE Goto("check_observer")
    /\ UNCHANGED <<script, argv, opts, file, calls, gcvars, ctlvars>>

\* Lines 41-43.
PF_check_observer ==
    /\ script = "peak_finder" /\ pc = "check_observer"
    /\ IF opts.observer.isNone
       THEN ExitWith("Please specify the observer")
       ELSE Goto("experiment_id")
    /\ UNCHANGED <<script, argv, opts, file, calls, gcvars, ctlvars>>

\* Lines 44-46.
PF_experiment_id ==
    /\ script = "peak_finder" /\ pc = "experiment_id"
    /\ opts' = IF opts.experiment_id.isNone
               THEN [opts EXCEPT !.experiment_id = Some("uuid1")]
               ELSE opts
    /\ Goto("check_tgt")
    /\ UNCHANGED <<script, argv, file, calls, gcvars, ctlvars>>

\* Lines 48-50.  The script never assigns tgt: unless the calling session
\* defined the name, reading it raises NameError.
PF_check_tgt ==
    /\ script = "peak_finder" /\ pc = "check_tgt"
    /\ IF tgt = "undefined" THEN Raise("NameError")
       ELSE IF tgt = "None" THEN ExitWith("Please assign a tgt variable")
       ELSE Goto("tbuild")
    /\ UNCHANGED <<script, argv, opts, file, calls, gcvars, ctlvars>>

\* Lines 54-55 without the except clause of line 57.
PF_tbuild_NoHandler ==
    /\ script = "peak_finder" /\ pc = "tbuild"
    /\ \E outcome \in BuildOutcomes, sd \in BOOLEAN :
          /\ calls' = Append(calls, Call("tbuild", "opts", outcome, <<>>))
          /\ IF outcome = "ok"
             THEN /\ kat' = Some([config |-> "opts", sd |-> sd])
                  /\ Goto("print_config")
             ELSE /\ kat' = kat
                  /\ Raise(Exception(outcome))
    /\ UNCHANGED <<script, argv, opts, file, gcvars, tgt, session, ip, clock,
                   start_time, end_time, remaining>>

\* Lines 54-55 and the except clause of line 57.
PF_tbuild ==
    /\ script = "peak_finder" /\ pc = "tbuild"
    /\ \E outcome \in BuildOutcomes, sd \in BOOLEAN :
          /\ calls' = Append(calls, Call("tbuild", "opts", outcome, <<>>))
          /\ IF outcome = "ok"
             THEN /\ kat' = Some([config |-> "opts", sd |-> sd])
                  /\ Goto("print_config")
             ELSE IF outcome = "ValueError"
             THEN /\ kat' = kat
                  /\ Goto("tbuild_fallback")
             ELSE /\ kat' = kat
                  /\ Raise(Exception(outcome))
    /\ UNCHANGED <<script, argv, opts, file, gcvars, tgt, session, ip, clock,
                   start_time, end_time, remaining>>

\* Line 58, inside the handler: nothing catches what it raises.
PF_tbuild_fallback ==
    /\ script = "peak_finder" /\ pc = "tbuild_fallback"
    /\ \E outcome \in BuildOutcomes, sd \in BOOLEAN :
          /\ calls' = Append(calls, Call("tbuild", "cfg-local.ini", outcome, <<>>))
          /\ IF outcome = "ok"
             THEN /\ kat' = Some([config |-> "cfg-local.ini", sd |-> sd])
                  /\ Goto("print_config")
             ELSE /\ kat' = kat
                  /\ Raise(Exception(outcome))
    /\ UNCHANGED <<script, argv, opts, file, gcvars, tgt, session, ip, clock,
                   start_time, end_time, remaining>>

\* Line 59.
PF_print_config ==
    /\ script = "peak_finder" /\ pc = "print_config"
    /\ stdout' = Append(stdout, "Using KAT connection with configuration")
    /\ pc' = "check_sd"
    /\ UNCHANGED <<script, argv, opts, file, calls, exit_status, exc, gcvars,
                   ctlvars>>

\* Lines 61-63 without the test of line 61.
PF_check_sd_NoTest ==
    /\ script = "peak_finder" /\ pc = "check_sd"
    /\ Goto("session_enter")
    /\ UNCHANGED <<script, argv, opts, file, calls, gcvars, ctlvars>>

\* Lines 61-63.
PF_check_sd ==
    /\ script = "peak_finder" /\ pc = "check_sd"
    /\ IF ~kat.v.sd
       THEN ExitWith("You need a running signal display session")
       ELSE Goto("session_enter")
    /\ UNCHANGED <<script, argv, opts, file, calls, gcvars, ctlvars>>

\* Lines 65-66.
PF_session_enter ==
    /\ script = "peak_finder" /\ pc = "session_enter"
    /\ \E outcome \in CallOutcomes :
          /\ calls' = Append(calls, Call("BasicCaptureSession", opts.ants.v,
                                         outcome, <<>>))
          /\ IF outcome = "ok"
             THEN /\ session' = "open"
                  /\ ip' = 1
                  /\ Goto("session_body")
             ELSE /\ session' = session
                  /\ ip' = ip
                  /\ Raise(Exception(outcome))
    /\ UNCHANGED <<script, argv, opts, file, gcvars, tgt, kat, clock,
                   start_time, end_time, remaining>>

\* The statements of the with block, lines 68-85, the loop of line 77 over
\* its three offsets written out.
Stmt(kind, fn, arg) == [kind |-> kind, fn |-> fn, arg |-> arg]

ScanOffsets == <<"-0.5", "0", "0.5">>

\* The body of the loop without line 81, the wait for the end of the scan.
ScanStmts_NoCompletionWait(x) ==
    << Stmt("req", "kat.ant1.req.scan_asym", x),
       Stmt("wait", "kat.ant1.wait", "lock"),
       Stmt("req", "kat.ant1.req.mode", "SCAN") >>

ScanStmts(x) ==
    << Stmt("req", "kat.ant1.req.scan_asym", x),
       Stmt("wait", "kat.ant1.wait", "lock"),
       Stmt("req", "kat.ant1.req.mode", "SCAN"),
       Stmt("wait", "kat.ant1.wait", "scan_status after") >>

RECURSIVE LoopStmts(_)
LoopStmts(xs) ==
    IF xs = <<>> THEN <<>> ELSE ScanStmts(Head(xs)) \o LoopStmts(Tail(xs))

PeakFinderBody ==
    << Stmt("req", "kat.dbe.req.k7w_write_hdf5", "0"),
       Stmt("req", "kat.dbe.req.capture_stop", ""),
       Stmt("req", "kat.dbe.req.capture_setup", ""),
       Stmt("req", "kat.dbe.req.capture_start", ""),
       Stmt("req", "kat.ant1.req.target", "tgt"),
       Stmt("req", "kat.ant1.req.mode", "POINT"),
       Stmt("wait", "kat.ant1.wait", "lock"),
       Stmt("start_time", "time.time", "") >>
    \o LoopStmts(ScanOffsets) \o
    << Stmt("end_time", "time.time", ""),
       Stmt("get", "kat.ant1.sensor.pos_actual_scan_azim.get_stored_history", "az"),
       Stmt("get", "kat.ant1.sensor.pos_actual_scan_azim.get_stored_history", "el"),
       Stmt("get", "kat.dh.sd.select_data", "data") >>

\* A request to the correlator or the antenna.
PF_request ==
    /\ script = "peak_finder" /\ pc = "session_body"
    /\ ip <= Len(PeakFinderBody) /\ PeakFinderBody[ip].kind = "req"
    /\ \E outcome \in CallOutcomes :
          /\ calls' = Append(calls, Call(PeakFinderBody[ip].fn,
                                         PeakFinderBody[ip].arg, outcome, <<>>))
          /\ IF outcome = "ok"
             THEN /\ ip' = ip + 1
                  /\ session' = session
                  /\ Goto("session_body")
             ELSE /\ ip' = ip
                  /\ RaiseInSession(Exception(outcome))
    /\ UNCHANGED <<script, argv, opts, file, gcvars, tgt, kat, clock,
                   start_time, end_time, remaining>>

\* kat.ant1.wait(sensor, value, 300); its result is not looked at.
PF_wait ==
    /\ script = "peak_finder" /\ pc = "session_body"
    /\ ip <= Len(PeakFinderBody) /\ PeakFinderBody[ip].kind = "wait"
    /\ \E outcome \in WaitOutcomes :
          /\ calls' = Append(calls, Call(PeakFinderBody[ip].fn,
                                         PeakFinderBody[ip].arg, outcome, <<>>))
          /\ IF outcome # "Error"
             THEN /\ ip' = ip + 1
                  /\ session' = session
                  /\ Goto("session_body")
             ELSE /\ ip' = ip
                  /\ RaiseInSession(Exception(outcome))
    /\ UNCHANGED <<script, argv, opts, file, gcvars, tgt, kat, clock,
                   start_time, end_time, remaining>>

\* Lines 76 and 82: time.time(), and the name its value is assigned to.
PF_time ==
    /\ script = "peak_finder" /\ pc = "session_body"
    /\ ip <= Len(PeakFinderBody)
    /\ PeakFinderBody[ip].kind \in {"start_time", "end_time"}
    /\ clock' = clock + 1
    /\ calls' = Append(calls, Call(PeakFinderBody[ip].fn, PeakFinderBody[ip].kind,
                                   "ok", <<clock'>>))
    /\ IF PeakFinderBody[ip].kind = "start_time"
       THEN start_time' = clock' /\ end_time' = end_time
       ELSE end_time' = clock' /\ start_time' = start_time
    /\ ip' = ip + 1
    /\ UNCHANGED <<script, pc, argv, opts, file, stdout, exit_status, exc,
                   gcvars, tgt, kat, session, remaining>>

\* Lines 83-85: the stored history and the signal display data.
PF_retrieve ==
    /\ script = "peak_finder" /\ pc = "session_body"
    /\ ip <= Len(PeakFinderBody) /\ PeakFinderBody[ip].kind = "get"
    /\ \E outcome \in CallOutcomes :
          /\ calls' = Append(calls, Call(PeakFinderBody[ip].fn,
                                         PeakFinderBody[ip].arg, outcome,
                                         <<start_time, end_time>>))
          /\ IF outcome = "ok"
             THEN /\ ip' = ip + 1
                  /\ session' = session
                  /\ Goto("session_body")
             ELSE /\ ip' = ip
                  /\ RaiseInSession(Exception(outcome))
    /\ UNCHANGED <<script, argv, opts, file, gcvars, tgt, kat, clock,
                   start_time, end_time, remaining>>

\* The end of the with block, and line 86.
PF_session_exit ==
    /\ script = "peak_finder" /\ pc = "session_body"
    /\ ip = Len(PeakFinderBody) + 1
    /\ session' = "closed"
    /\ stdout' = Append(stdout, "Done")
    /\ pc' = "done"
    /\ exit_status' = Some(0)
    /\ UNCHANGED <<script, argv, opts, file, exc, calls, gcvars, tgt, kat, ip,
                   clock, start_time, end_time, remaining>>

PeakFinder ==
    \/ PF_check_ants
    \/ PF_check_observer
    \/ PF_experiment_id
    \/ PF_check_tgt
    \/ PF_tbuild
    \/ PF_tbuild_fallback
    \/ PF_print_config
    \/ PF_check_sd
    \/ PF_session_enter
    \/ PF_request
    \/ PF_wait
    \/ PF_time
    \/ PF_retrieve
    \/ PF_session_exit

(***************************************************************************)
(* ops/baseline_cal_scan.py                                                *)
(***************************************************************************)
\* The most targets the catalogue yields above the elevation limit.
MaxTargets == 2

\* Line 6: no try statement surrounds tbuild.
BC_tbuild ==
    /\ script = "baseline_cal_scan" /\ pc = "tbuild"
    /\ \E outcome \in BuildOutcomes :
          /\ calls' = Append(calls, Call("tbuild", "cfg-karoo.ini", outcome, <<>>))
          /\ IF outcome = "ok"
             THEN /\ kat' = Some([config |-> "cfg-karoo.ini", sd |-> FALSE])
                  /\ Goto("catalogue")
             ELSE /\ kat' = kat
                  /\ Raise(Exception(outcome))
    /\ UNCHANGED <<script, argv, opts, file, gcvars, tgt, session, ip, clock,
                   start_time, end_time, remaining>>

\* Lines 8-10: the catalogue is read from the source list.
BC_catalogue ==
    /\ script = "baseline_cal_scan" /\ pc = "catalogue"
    /\ \E outcome \in CallOutcomes, n \in 0..MaxTargets :
          /\ calls' = Append(calls, Call("open", "source_list.csv", outcome, <<>>))
          /\ IF outcome = "ok"
             THEN /\ remaining' = n
                  /\ Goto("session_enter")
             ELSE /\ remaining' = remaining
                  /\ Raise(Exception(outcome))
    /\ UNCHANGED <<script, argv, opts, file, gcvars, tgt, kat, session, ip,
                   clock, start_time, end_time>>

\* Line 12.
BC_session_enter ==
    /\ script = "baseline_cal_scan" /\ pc = "session_enter"
    /\ \E outcome \in CallOutcomes :
          /\ calls' = Append(calls, Call("CaptureSession", "ff.ants", outcome, <<>>))
          /\ IF outcome = "ok"
             THEN /\ session' = "open"
                  /\ Goto("track")
             ELSE /\ session' = session
                  /\ Raise(Exception(outcome))
    /\ UNCHANGED <<script, argv, opts, file, gcvars, tgt, kat, ip, clock,
                   start_time, end_time, remaining>>

\* Lines 14-15: one pass of the loop.
BC_track ==
    /\ script = "baseline_cal_scan" /\ pc = "track"
    /\ remaining > 0
    /\ \E outcome \in CallOutcomes :
          /\ calls' = Append(calls, Call("session.track", "target", outcome, <<>>))
          /\ IF outcome = "ok"
             THEN /\ remaining' = remaining - 1
                  /\ session' = session
                  /\ Goto("track")
             ELSE /\ remaining' = remaining
                  /\ RaiseInSession(Exception(outcome))
    /\ UNCHANGED <<script, argv, opts, file, gcvars, tgt, kat, ip, clock,
                   start_time, end_time>>

\* The end of the loop, of the with block and of the script.
BC_session_exit ==
    /\ script = "baseline_cal_scan" /\ pc = "track"
    /\ remaining = 0
    /\ session' = "closed"
    /\ pc' = "done"
    /\ exit_status' = Some(0)
    /\ UNCHANGED <<script, argv, opts, file, stdout, exc, calls, gcvars, tgt,
                   kat, ip, clock, start_time, end_time, remaining>>

BaselineCalScan ==
    \/ BC_tbuild
    \/ BC_catalogue
    \/ BC_session_enter
    \/ BC_track
    \/ BC_session_exit

(***************************************************************************)
(* ops/simscan.py                                                          *)
(***************************************************************************)
\* Line 10: no try statement surrounds tbuild.
SS_tbuild ==
    /\ script = "simscan" /\ pc = "tbuild"
    /\ \E outcome \in BuildOutcomes :
          /\ calls' = Append(calls, Call("tbuild", "cfg-local.ini", outcome, <<>>))
          /\ IF outcome = "ok"
             THEN /\ kat' = Some([config |-> "cfg-local.ini", sd |-> FALSE])
                  /\ ip' = 1
                  /\ Goto("setup")
             ELSE /\ kat' = kat
                  /\ ip' = ip
                  /\ Raise(Exception(outcome))
    /\ UNCHANGED <<script, argv, opts, file, gcvars, tgt, session, clock,
                   start_time, end_time, remaining>>

\* Lines 13-17: the test target and the two listeners.
SimscanSetup ==
    << Stmt("req", "kat.dbe.req.dbe_test_target", "20,40,100"),
       Stmt("req", "kat.ant1.sensor.pos_actual_scan_azim.register_listener", "0.5"),
       Stmt("req", "kat.ant1.sensor.pos_actual_scan_elev.register_listener", "0.5") >>

SS_setup ==
    /\ script = "simscan" /\ pc = "setup"
    /\ ip <= Len(SimscanSetup)
    /\ \E outcome \in CallOutcomes :
          /\ calls' = Append(calls, Call(SimscanSetup[ip].fn, SimscanSetup[ip].arg,
                                         outcome, <<>>))
          /\ IF outcome = "ok"
             THEN /\ ip' = ip + 1
                  /\ Goto("setup")
             ELSE /\ ip' = ip
                  /\ Raise(Exception(outcome))
    /\ UNCHANGED <<script, argv, opts, file, gcvars, tgt, kat, session, clock,
                   start_time, end_time, remaining>>

\* Line 19.
SS_session_enter ==
    /\ script = "simscan" /\ pc = "setup"
    /\ ip = Len(SimscanSetup) + 1
    /\ \E outcome \in CallOutcomes :
          /\ calls' = Append(calls, Call("CaptureSession", "kat.ants", outcome, <<>>))
          /\ IF outcome = "ok"
             THEN /\ session' = "open"
                  /\ Goto("raster_scan")
             ELSE /\ session' = session
                  /\ Raise(Exception(outcome))
    /\ UNCHANGED <<script, argv, opts, file, gcvars, tgt, kat, ip, clock,
                   start_time, end_time, remaining>>

\* Line 20, and the end of both with blocks.
SS_raster_scan ==
    /\ script = "simscan" /\ pc = "raster_scan"
    /\ \E outcome \in CallOutcomes :
          /\ calls' = Append(calls, Call("session.raster_scan", "jastgt", outcome, <<>>))
          /\ session' = "closed"
          /\ IF outcome = "ok"
             THEN /\ pc' = "done"
                  /\ exit_status' = Some(0)
                  /\ UNCHANGED <<stdout, exc>>
             ELSE Raise(Exception(outcome))
    /\ UNCHANGED <<script, argv, opts, file, gcvars, tgt, kat, ip, clock,
                   start_time, end_time, remaining>>

Simscan ==
    \/ SS_tbuild
    \/ SS_setup
    \/ SS_session_enter
    \/ SS_raster_scan

(***************************************************************************)
(* RTS/2.8-Strong_Sources/analyse_noise_diode.py                            *)
(***************************************************************************)
\* Lines 31-39 and 42: parse_arguments returns the options and the
\* positional arguments and checks neither.
AN_parse_arguments ==
    /\ script = "analyse_noise_diode" /\ pc = "parse_arguments"
    /\ Goto("analyse_noise_diode")
    /\ UNCHANGED <<script, argv, opts, file, calls, gcvars, ctlvars>>

\* Line 44: args[0] raises IndexError for an empty list, before the call;
\* the library function reads the file.
AN_analyse_noise_diode ==
    /\ script = "analyse_noise_diode" /\ pc = "analyse_noise_diode"
    /\ IF Len(argv) = 0
       THEN /\ Raise("IndexError")
            /\ calls' = calls
       ELSE \E outcome \in CallOutcomes :
               /\ calls' = Append(calls, Call("open", argv[1], outcome, <<>>))
               /\ IF outcome = "ok"
                  THEN /\ pc' = "done"
                       /\ exit_status' = Some(0)
                       /\ UNCHANGED <<stdout, exc>>
                  ELSE Raise(Exception(outcome))
    /\ UNCHANGED <<script, argv, opts, file, gcvars, ctlvars>>

AnalyseNoiseDiode ==
    \/ AN_parse_arguments
    \/ AN_analyse_noise_diode

(***************************************************************************)
(* Direct calls of the functions of gain_curve.py, on arguments the script *)
(* itself does not produce.  The arguments are in the variables of the     *)
(* same names (tsys in Tsys, eff in e, the limits and targets in opts).    *)
(***************************************************************************)
Call_determine_good_data ==
    /\ script = "call" /\ pc = "determine_good_data"
    /\ good' = Some(determine_good_data(data.v, opts.targets, Tsys, opts.tsys_lim,
                                        e, <<opts.eff_min, opts.eff_max>>))
    /\ calls' = Append(calls, Call("determine_good_data", "", "ok", <<>>))
    /\ Goto("returned")
    /\ UNCHANGED <<script, argv, opts, file, filename, data, antenna,
                   output_filename, gain, e, Tsys, SEFD, el, g_0, tau, T_atm,
                   T_rec, report, ctlvars>>

Call_fit_atmospheric_absorption ==
    /\ script = "call" /\ pc = "fit_atmospheric_absorption"
    /\ LET r == fit_atmospheric_absorption(gain.v, el.v)
       IN  /\ g_0' = Some(r[1])
           /\ tau' = Some(r[2])
    /\ calls' = Append(calls, Call("fit_atmospheric_absorption", "", "ok", <<>>))
    /\ Goto("returned")
    /\ UNCHANGED <<script, argv, opts, file, filename, data, antenna,
                   output_filename, gain, e, Tsys, SEFD, good, el, T_atm,
                   T_rec, report, ctlvars>>

DirectCall ==
    \/ Call_determine_good_data
    \/ Call_fit_atmospheric_absorption

Next ==
    \/ GainCurve
    \/ DirectCall
    \/ PeakFinder
    \/ BaselineCalScan
    \/ Simscan
    \/ AnalyseNoiseDiode

(***************************************************************************)
(* The runs.  Init draws the script, its command line and its input file.  *)
(***************************************************************************)
\* The most rows of an input table.
MaxRows == 2

T273 == <<"3", "C", "2", "7", "3">>

T27 == <<"3", "C", "2", "7">>

Vir == <<"V", "i", "r">>

\* The values of the -t option: absent, one target, two targets.
TargetOpts == {None, Some(Str(T273)), Some(Str(T27 \o <<",">> \o Vir))}

Pols == {"I", "HH", "VV"}

\* The measurements of one scan: the heights of both polarisations and the
\* flux of the source.
Meas(bh, bv, lh, lv, f) ==
    [beam_height_HH |-> bh, beam_height_VV |-> bv,
     baseline_height_HH |-> lh, baseline_height_VV |-> lv, flux |-> f]

MeasOne ==
    { Meas(Num(1), Num(4), Num(100), Num(225), Num(50)),
      Meas(NaN, Num(4), Num(100), Num(100), Num(100)),
      Meas(Num(1), Num(1), NaN, Num(100), Num(50)),
      Meas(Num(-1), Num(4), Num(100), Num(100), Num(50)),
      Meas(Num(1), Num(1), Inf, Inf, Num(50)) }

MeasTable ==
    { Meas(Num(4), Num(4), Num(100), Num(100), Num(100)),
      Meas(Num(2), Num(2), Num(64), Num(64), Num(100)),
      Meas(Num(1), Num(1), NaN, Num(100), Num(50)) }

Row(t, u, elev, m) ==
    [target |-> t, data_unit |-> u, frequency |-> Num(1822), elevation |-> elev,
     flux |-> m.flux,
     beam_height_HH |-> m.beam_height_HH, beam_height_VV |-> m.beam_height_VV,
     baseline_height_HH |-> m.baseline_height_HH,
     baseline_height_VV |-> m.baseline_height_VV]

\* The antenna of the header line: its diameter a float, or a whole number.
Diameters == {PyFloat(Num(12)), PyInt(13)}

Antenna(dia) == [name |-> "ant1", diameter |-> dia]

RowsOne == {Row(t, u, El30, m) : t \in {T273, T27}, u \in {"K", "counts"}, m \in MeasOne}

\* The elevations of the rows of a table of several rows.
TableElevations == {El19, El30, El90}

RowsTable == {Row(T273, "K", elev, m) : elev \in TableElevations, m \in MeasTable}

FilesOne == {[antenna |-> Antenna(dia), rows |-> <<r>>] : dia \in Diameters, r \in RowsOne}

FilesTable ==
    {[antenna |-> Antenna(PyFloat(Num(12))), rows |-> rows] :
        rows \in UNION {[1..k -> RowsTable] : k \in 1..MaxRows}}

DefaultFile == [antenna |-> Antenna(PyFloat(Num(12))),
                rows |-> <<Row(T273, "K", El30, Meas(Num(4), Num(4), Num(100), Num(100), Num(100)))>>]

\* The aperture efficiency of a gain of 1/50 K/Jy with a 12 m dish: given as
\* --eff_min it puts a row on the limit.
EffOnLimit ==
    compute_gain_e(<<[calc_beam_height |-> Num(1), flux |-> Num(50)]>>,
                   Antenna(PyFloat(Num(12)))).e[1]

\* The values of --eff_min and --eff_max: the defaults, and a limit a row is on.
EffLims == {<<Num(35), Num(100)>>, <<EffOnLimit, Num(100)>>}

\* The values of --min_elevation: the default, and 30 degrees.
MinElevations == {Num(20), Num(30)}

GainCurveOpts(pol, targets, lim, interf, correct, minel) ==
    [outfilebase |-> "gain_curve", polarisation |-> pol, targets |-> targets,
     tsys_lim |-> Num(150), eff_min |-> lim[1], eff_max |-> lim[2],
     min_elevation |-> minel, correct_efficiency |-> correct,
     elev_min |-> Num(15), interferometric |-> interf]

NoOpts == [none |-> TRUE]

NoFile == [none |-> TRUE]

InitProcess ==
    /\ stdout = <<>>
    /\ exit_status = None
    /\ exc = "none"
    /\ calls = <<>>

InitGainCurveVars ==
    /\ filename = None /\ data = None /\ antenna = None /\ output_filename = None
    /\ gain = None /\ e = None /\ Tsys = None /\ SEFD = None /\ good = None
    /\ el = None /\ g_0 = None /\ tau = None /\ T_atm = None /\ T_rec = None
    /\ report = None

InitControlVars ==
    /\ kat = None
    /\ session = "none"
    /\ ip = 0
    /\ clock = 0 /\ start_time = 0 /\ end_time = 0
    /\ remaining = 0

\* gain_curve.py on a table of one row, over the options of the good mask.
InitGainCurveOne ==
    /\ script = "gain_curve" /\ pc = "parse_arguments"
    /\ argv = <<"scans.csv">>
    /\ file \in FilesOne
    /\ \E pol \in Pols, t \in TargetOpts, lim \in EffLims, interf \in BOOLEAN :
          opts = GainCurveOpts(pol, t, lim, interf, FALSE, Num(20))
    /\ tgt = "undefined"

\* gain_curve.py on a table of several rows at several elevations.
InitGainCurveTable ==
    /\ script = "gain_curve" /\ pc = "parse_arguments"
    /\ argv = <<"scans.csv">>
    /\ file \in FilesTable
    /\ \E interf \in BOOLEAN, correct \in BOOLEAN, minel \in MinElevations :
          opts = GainCurveOpts("I", None, <<Num(35), Num(100)>>, interf, correct, minel)
    /\ tgt = "undefined"

\* gain_curve.py without its positional argument.
InitGainCurveNoArgs ==
    /\ script = "gain_curve" /\ pc = "parse_arguments"
    /\ argv = <<>>
    /\ file = DefaultFile
    /\ \E pol \in Pols, t \in TargetOpts, interf \in BOOLEAN :
          opts = GainCurveOpts(pol, t, <<Num(35), Num(100)>>, interf, FALSE, Num(20))
    /\ tgt = "undefined"

\* peak_finder.py: its options, and the name tgt of the calling session.
InitPeakFinder ==
    /\ script = "peak_finder" /\ pc = "check_ants"
    /\ argv = <<>>
    /\ file = NoFile
    /\ \E ants \in {None, Some("ant1")}, observer \in {None, Some("observer")},
          id \in {None, Some("id")} :
          opts = [ini_file |-> None, selected_config |-> None,
                  experiment_id |-> id, observer |-> observer,
                  description |-> "Point source scan", ants |-> ants,
                  record_slews |-> TRUE]
    /\ tgt \in {"undefined", "None", "target"}

InitControlScript ==
    /\ script \in {"baseline_cal_scan", "simscan"} /\ pc = "tbuild"
    /\ argv = <<>>
    /\ file = NoFile
    /\ opts = NoOpts
    /\ tgt = "undefined"

InitAnalyseNoiseDiode ==
    /\ script = "analyse_noise_diode" /\ pc = "parse_arguments"
    /\ argv \in {<<>>, <<"scans.h5">>}
    /\ file = NoFile
    /\ opts = [antenna |-> "sd", freq_chans |-> None, targets |-> "all",
               output_dir |-> "."]
    /\ tgt = "undefined"

\* The rows, arrays and limits of the direct calls of determine_good_data.
CallHeights == {Num(1), NaN, Inf}

CallRows ==
    {[target |-> t, data_unit |-> u, calc_beam_height |-> b,
      calc_baseline_height |-> l] :
        t \in {T273, T27}, u \in {"K", "counts", "k"},
        b \in CallHeights, l \in CallHeights}

CallTargets == {None, Some(Str(T273)), Some(List(<<T273, Vir>>))}

CallTsys == {None, Some(<<Num(100)>>), Some(<<Num(150)>>), Some(<<NaN>>)}

CallEff == {None, Some(<<Num(50)>>), Some(<<Num(35)>>), Some(<<Num(200)>>), Some(<<NaN>>)}

InitCallGood ==
    /\ script = "call" /\ pc = "determine_good_data"
    /\ argv = <<>>
    /\ file = NoFile
    /\ \E t \in CallTargets :
          opts = [targets |-> t, tsys_lim |-> Num(150), eff_min |-> Num(35),
                  eff_max |-> Num(100)]
    /\ \E r \in CallRows : data = Some(<<r>>)
    /\ Tsys \in CallTsys
    /\ e \in CallEff
    /\ filename = None /\ antenna = None /\ output_filename = None
    /\ gain = None /\ SEFD = None /\ good = None
    /\ el = None /\ g_0 = None /\ tau = None /\ T_atm = None /\ T_rec = None
    /\ report = None
    /\ tgt = "undefined"

\* The most rows of a direct call of fit_atmospheric_absorption.
MaxFitRows == 3

\* Zenith gains exp(l) and opacities of the synthetic gain curves.
FitG0 == {Exp(LV2(Num(0), Num(0))), Exp(LV2(Num(-4), Num(0))), Exp(LV2(Num(0), Num(-5)))}

FitTau == {LV2(Num(0), Num(0)), LV2(Q(1, 100), Num(0)), LV2(Num(0), Q(1, 10))}

\* Rows on the curve.
NoNoise(k) == [i \in 1..k |-> LV2(Num(0), Num(0))]

\* What the log gains of k rows are off the curve by: nothing, or a tenth
\* for the first row.
FitNoise(k) == {NoNoise(k), [NoNoise(k) EXCEPT ![1] = LV2(Q(1, 10), Num(0))]}

\* The gains g0 * exp(-tau * airmass) of the rows at the elevations elev (in
\* radians), each times exp(noise).
SyntheticGain(g0, t, elev, noise) ==
    [i \in DOMAIN elev |->
        Exp(VAdd(VAdd(Log(g0), VNeg(VScale(airmass_of(elev)[i], t))), noise[i]))]

InitCallFit ==
    /\ script = "call" /\ pc = "fit_atmospheric_absorption"
    /\ argv = <<>>
    /\ file = NoFile
    /\ opts = NoOpts
    /\ \E k \in 1..MaxFitRows :
          \E elev \in [1..k -> Elevations], noise \in FitNoise(k),
             g0 \in FitG0, t \in FitTau :
             /\ el = Some([i \in 1..k |-> deg2rad(elev[i])])
             /\ gain = Some(SyntheticGain(g0, t, [i \in 1..k |-> deg2rad(elev[i])], noise))
    /\ filename = None /\ data = None /\ antenna = None /\ output_filename = None
    /\ e = None /\ Tsys = None /\ SEFD = None /\ good = None
    /\ g_0 = None /\ tau = None /\ T_atm = None /\ T_rec = None
    /\ report = None
    /\ tgt = "undefined"

Init ==
    /\ InitProcess
    /\ InitControlVars
    /\ \/ InitGainCurveVars /\ InitGainCurveOne
       \/ InitGainCurveVars /\ InitGainCurveTable
       \/ InitGainCurveVars /\ InitGainCurveNoArgs
       \/ InitGainCurveVars /\ InitPeakFinder
       \/ InitGainCurveVars /\ InitControlScript
       \/ InitGainCurveVars /\ InitAnalyseNoiseDiode
       \/ InitCallGood
       \/ InitCallFit

Spec == Init /\ [][Next]_vars

(***************************************************************************)
(* The claims.                                                             *)
(***************************************************************************)
\* The script has just computed the good mask (lines 310-311).
MaskComputed == script = "gain_curve" /\ pc = "deg2rad"

\* The names of the -t option: the pieces between its commas.
RequestedTargets == SeqRange(Split(opts.targets.v.str))

\* x lies in the closed interval [lo, hi].
Within(x, lo, hi) == ~IsNaN(x) /\ ~FLt(x, lo) /\ ~FGt(x, hi)

\* C1: a row is retained by gain_curve.py if and only if its target is one
\* of the requested targets (or none were requested), its Tsys is below
\* tsys_lim, its efficiency lies within [eff_min, eff_max], its beam and
\* baseline heights are finite and its unit is 'K'.
C1_RetainedIff ==
    MaskComputed =>
        \A i \in DOMAIN data.v :
            good.v[i] <=>
                /\ opts.targets.isNone \/ data.v[i].target \in RequestedTargets
                /\ FLt(data.v[i].calc_baseline_height, opts.tsys_lim)
                /\ Within(e.v[i], opts.eff_min, opts.eff_max)
                /\ IsFinite(data.v[i].calc_beam_height)
                /\ IsFinite(data.v[i].calc_baseline_height)
                /\ data.v[i].data_unit = "K"

\* C1, the direction the target test breaks: a retained row's target is one
\* of the requested targets.
C1_RetainedIsRequested ==
    (MaskComputed /\ ~opts.targets.isNone) =>
        \A i \in DOMAIN data.v :
            good.v[i] => data.v[i].target \in RequestedTargets

HasNaNHeight(r) == IsNaN(r.calc_beam_height) \/ IsNaN(r.calc_baseline_height)

FitCalls == {"fit_atmospheric_absorption", "fit_atmospheric_emission"}

\* C2: determine_good_data marks every row with a NaN beam or baseline
\* height as bad, whatever its other arguments, and gain_curve.py passes no
\* such row to either fit.
C2_NaNRowsBad ==
    /\ ~good.isNone =>
          \A i \in DOMAIN data.v : HasNaNHeight(data.v[i]) => ~good.v[i]
    /\ script = "gain_curve" =>
          \A k \in DOMAIN calls :
              calls[k].fn \in FitCalls =>
                  \A r \in SeqRange(calls[k].rows) : ~HasNaNHeight(data.v[r])

\* A row with a NaN baseline height that no other test of the mask rejects
\* (interferometric mode: no Tsys test), marked bad.
C2_Witness ==
    /\ MaskComputed /\ opts.interferometric
    /\ \E i \in DOMAIN data.v :
          /\ IsNaN(data.v[i].calc_baseline_height)
          /\ ~IsNaN(data.v[i].calc_beam_height)
          /\ data.v[i].data_unit = "K"
          /\ opts.targets.isNone
          /\ FGt(e.v[i], opts.eff_min) /\ FLt(e.v[i], opts.eff_max)
          /\ ~good.v[i]

\* C3: determine_good_data marks every row whose data_unit is not exactly
\* 'K' as bad, whatever its other arguments.
C3_NonKelvinRowsBad ==
    ~good.isNone =>
        \A i \in DOMAIN data.v : data.v[i].data_unit # "K" => ~good.v[i]

\* A row in other units that no other test of the mask rejects, marked bad.
C3_Witness ==
    /\ script = "call" /\ pc = "returned" /\ ~good.isNone
    /\ \E i \in DOMAIN data.v :
          /\ data.v[i].data_unit = "k"
          /\ ~HasNaNHeight(data.v[i])
          /\ opts.targets.isNone /\ Tsys.isNone /\ e.isNone
          /\ ~good.v[i]

\* C4: for every row with a non-zero gain, the SEFD compute_tsys_sefd
\* returns is the row's calc_baseline_height divided by the gain
\* compute_gain_e returned for the same row, and Tsys is the row's
\* calc_baseline_height.
C4_SefdIsTsysOverGain ==
    (script = "gain_curve" /\ ~SEFD.isNone) =>
        \A i \in DOMAIN data.v :
            ~IsZero(gain.v[i]) =>
                /\ Tsys.v[i] = data.v[i].calc_baseline_height
                /\ SEFD.v[i] = FDiv(data.v[i].calc_baseline_height,
                                    FDiv(data.v[i].calc_beam_height, data.v[i].flux))

\* Two rows of different gain and Tsys, with their SEFD.
C4_Witness ==
    /\ script = "gain_curve" /\ ~SEFD.isNone /\ Len(data.v) = 2
    /\ gain.v[1] # gain.v[2] /\ Tsys.v[1] # Tsys.v[2]
    /\ IsFinite(SEFD.v[1]) /\ IsFinite(SEFD.v[2]) /\ SEFD.v[1] # SEFD.v[2]

\* The area of the dish, pi * (diameter / 2) ^ 2, in true division.
GeometricArea(diameter) ==
    FMul(np_pi.v, FMul(FDiv(diameter.v, Num(2)), FDiv(diameter.v, Num(2))))

\* C5: compute_gain_e returns gain = calc_beam_height / flux and
\* e = gain * (2761 / geometric_area) * 100 for every row, the quotient
\* 2761 / geometric_area never truncated, also for a whole-number diameter.
C5_GainAndEfficiency ==
    (script = "gain_curve" /\ pc = "compute_tsys_sefd") =>
        \A i \in DOMAIN data.v :
            /\ gain.v[i] = FDiv(data.v[i].calc_beam_height, data.v[i].flux)
            /\ e.v[i] = FMul(FMul(gain.v[i],
                                  FDiv(Num(2761), GeometricArea(antenna.v.diameter))),
                             Num(100))

\* The efficiency of a row of a dish whose diameter is a whole number.
C5_Witness ==
    /\ script = "gain_curve" /\ pc = "compute_tsys_sefd"
    /\ antenna.v.diameter.int
    /\ IsFinite(e.v[1]) /\ e.v[1].d # 1

Ended == pc \in {"exited", "crashed", "done"}

\* The run lacks an argument its script requires.
MissingArgument ==
    \/ script = "gain_curve" /\ Len(argv) = 0
    \/ script = "peak_finder" /\ (opts.ants.isNone \/ opts.observer.isNone)
    \/ script = "analyse_noise_diode" /\ Len(argv) = 0

\* C6: a script run without an argument it requires prints a message and
\* exits with a non-zero status, and reads no file and builds no connection
\* before it does.
C6_MissingArgumentExits ==
    MissingArgument =>
        /\ \A k \in DOMAIN calls : calls[k].fn \notin {"open", "tbuild"}
        /\ Ended => (stdout # <<>> /\ ~exit_status.isNone /\ exit_status.v # 0)

ControlScripts == {"baseline_cal_scan", "simscan", "peak_finder"}

Failed(k) == calls[k].res \in {"ValueError", "Error"}

\* The first call of every control script is its tbuild.
FirstBuildFailedLookup ==
    Len(calls) >= 1 /\ calls[1].fn = "tbuild" /\ calls[1].res = "ValueError"

\* The script went on to build the local configuration.
FellBack ==
    /\ Len(calls) = 1 => (pc = "tbuild_fallback" /\ exit_status.isNone)
    /\ Len(calls) >= 2 => (calls[2].fn = "tbuild" /\ calls[2].arg = "cfg-local.ini")

\* The failure of call k ended the script.
Propagated(k) ==
    k = Len(calls) /\ pc = "crashed" /\ exc = calls[k].res /\ exit_status = Some(1)

\* C7 as claimed: each of the three control scripts falls back to a local
\* configuration when tbuild fails with a lookup failure and continues, and
\* every other failure ends the script.
C7_EveryScriptFallsBack ==
    script \in ControlScripts =>
        /\ FirstBuildFailedLookup => FellBack
        /\ \A k \in DOMAIN calls :
              (Failed(k) /\ ~(k = 1 /\ FirstBuildFailedLookup)) => Propagated(k)

\* C7 as amended: peak_finder.py alone falls back to the local configuration
\* when its tbuild fails with a lookup failure; baseline_cal_scan.py and
\* simscan.py catch nothing, so there the lookup failure ends the script;
\* every other failure, that of the fallback build included, ends the script.
C7_OnlyPeakFinderFallsBack ==
    script \in ControlScripts =>
        /\ (script = "peak_finder" /\ FirstBuildFailedLookup) => FellBack
        /\ \A k \in DOMAIN calls :
              (Failed(k) /\ ~(script = "peak_finder" /\ k = 1 /\ FirstBuildFailedLookup))
                  => Propagated(k)

\* peak_finder.py inside its capture session after the fallback.
C7_Witness ==
    /\ script = "peak_finder" /\ FirstBuildFailedLookup
    /\ Len(calls) >= 4 /\ calls[2].res = "ok" /\ session = "open"

\* x_i = 1 / sin(el_i) for the rows the fit is given.
Distinct(x) == \E i, j \in DOMAIN x : x[i] # x[j]

\* g0 * exp(-tau * x) = g, in logarithms.
OnCurve(g0, t, x, g) == VAdd(Log(g0), VNeg(VScale(x, t))) = Log(g)

\* C8: for at least two rows of distinct airmass whose gain is exactly
\* g0 * exp(-tau * airmass), airmass = 1 / sin(elevation), elevation in
\* radians, fit_atmospheric_absorption returns (g0, tau), in that order.
\* In gain_curve.py, where two retained rows of distinct airmass lie on
\* exactly one such curve, the fitted curve passes through both.
C8_FitRecoversCurve ==
    /\ (script = "call" /\ pc = "returned" /\ ~g_0.isNone) =>
          \A g0 \in FitG0, t \in FitTau :
              ( /\ Len(el.v) >= 2
                /\ Distinct(airmass_of(el.v))
                /\ gain.v = SyntheticGain(g0, t, el.v, NoNoise(Len(el.v))) )
              => (g_0.v = g0 /\ tau.v = t)
    /\ (script = "gain_curve" /\ ~g_0.isNone) =>
          LET x == airmass_of(Select(el.v, good.v))
              g == Select(gain.v, good.v)
          IN  (Len(x) = 2 /\ Distinct(x)) =>
                  \A i \in DOMAIN x : OnCurve(g_0.v, tau.v, x[i], g[i])

\* Three rows at three elevations on a curve with a non-zero opacity.
C8_Witness ==
    /\ script = "call" /\ pc = "returned" /\ ~g_0.isNone
    /\ Len(el.v) = 3
    /\ Cardinality(SeqRange(airmass_of(el.v))) = 3
    /\ \E g0 \in FitG0, t \in FitTau :
          /\ t # LV2(Num(0), Num(0))
          /\ gain.v = SyntheticGain(g0, t, el.v, NoNoise(3))
          /\ g_0.v = g0 /\ tau.v = t

\* C9: the statistics of the report, labelled (el. > min_elevation deg.),
\* are computed only over rows whose elevation is above --min_elevation.
C9_StatisticsAboveMinElevation ==
    (script = "gain_curve" /\ ~report.isNone) =>
        \A r \in SeqRange(report.v.rows) :
            FGt(data.v[r].elevation, opts.min_elevation)

Called(fn) == \E k \in DOMAIN calls : calls[k].fn = fn

\* The tests of the good mask other than the Tsys limit.
PassesOtherTests(i) ==
    /\ opts.targets.isNone \/ PyIn(data.v[i].target, opts.targets.v)
    /\ FGt(e.v[i], opts.eff_min) /\ FLt(e.v[i], opts.eff_max)
    /\ ~HasNaNHeight(data.v[i])
    /\ data.v[i].data_unit = "K"

\* C10: with --interferometric, gain_curve.py never calls compute_tsys_sefd
\* or fit_atmospheric_emission, Tsys, SEFD, T_atm and T_rec stay None
\* through to the report, the good mask rejects no row for its baseline
\* height, and the absorption fit is still made; without the option all
\* four are computed before the report is made.
C10_InterferometricSkipsTsys ==
    script = "gain_curve" =>
        /\ opts.interferometric =>
              /\ ~Called("compute_tsys_sefd") /\ ~Called("fit_atmospheric_emission")
              /\ Tsys.isNone /\ SEFD.isNone /\ T_atm.isNone /\ T_rec.isNone
              /\ MaskComputed =>
                    \A i \in DOMAIN data.v : PassesOtherTests(i) => good.v[i]
              /\ ~report.isNone =>
                    /\ ~report.v.has_tsys /\ ~report.v.has_sefd
                    /\ ~report.v.has_emission
                    /\ Called("fit_atmospheric_absorption")
                    /\ ~g_0.isNone /\ ~tau.isNone
        /\ (~opts.interferometric /\ Called("make_result_report")) =>
              /\ ~Tsys.isNone /\ ~SEFD.isNone /\ ~T_atm.isNone /\ ~T_rec.isNone
              /\ report.v.has_tsys /\ report.v.has_sefd /\ report.v.has_emission

\* An interferometric run that retained a row whose baseline height is not
\* below tsys_lim and made its report.
C10_Witness ==
    /\ script = "gain_curve" /\ opts.interferometric /\ ~report.isNone
    /\ \E i \in DOMAIN data.v :
          good.v[i] /\ ~FLt(data.v[i].calc_baseline_height, opts.tsys_lim)

\* Call k of the run is fn(arg).
Is(k, fn, arg) == k \in DOMAIN calls /\ calls[k].fn = fn /\ calls[k].arg = arg

\* Call k came back: a request without an exception, a wait with True or
\* with False.
Returned(k) == k \in DOMAIN calls /\ calls[k].res # "Error"

AntennaCommands ==
    {"kat.ant1.req.target", "kat.ant1.req.mode", "kat.ant1.req.scan_asym",
     "kat.ant1.wait"}

Retrievals ==
    {"kat.ant1.sensor.pos_actual_scan_azim.get_stored_history",
     "kat.dh.sd.select_data"}

\* The calls that request a scan, and the place of one among them.
ScanRequests == {k \in DOMAIN calls : calls[k].fn = "kat.ant1.req.scan_asym"}

Rank(k) == Cardinality({j \in ScanRequests : j <= k})

\* The offsets of the scans, in the order the claim gives them.
ClaimedOffsets == <<"-0.5", "0", "0.5">>

\* The correlator was stopped, set up and started, in that order, before
\* call k.
CaptureStartedBefore(k) ==
    \E a, b, c \in 1..(k - 1) :
        /\ a < b /\ b < c
        /\ Is(a, "kat.dbe.req.capture_stop", "") /\ Returned(a)
        /\ Is(b, "kat.dbe.req.capture_setup", "") /\ Returned(b)
        /\ Is(c, "kat.dbe.req.capture_start", "") /\ Returned(c)

\* The antenna was given the target and POINT mode and its lock was awaited,
\* in that order, before call k.
PointedBefore(k) ==
    \E t, p, w \in 1..(k - 1) :
        /\ t < p /\ p < w
        /\ Is(t, "kat.ant1.req.target", "tgt") /\ Returned(t)
        /\ Is(p, "kat.ant1.req.mode", "POINT") /\ Returned(p)
        /\ Is(w, "kat.ant1.wait", "lock") /\ Returned(w)

\* Scan request k is followed, as far as the run got, by the wait for lock,
\* SCAN mode and the wait for the end of the scan.
ScanSteps(k) ==
    /\ (k + 1) \in DOMAIN calls => (Returned(k) /\ Is(k + 1, "kat.ant1.wait", "lock"))
    /\ (k + 2) \in DOMAIN calls =>
          (Returned(k + 1) /\ Is(k + 2, "kat.ant1.req.mode", "SCAN"))
    /\ (k + 3) \in DOMAIN calls =>
          (Returned(k + 2) /\ Is(k + 3, "kat.ant1.wait", "scan_status after"))

\* The wait for the end of the scan requested by call k has returned
\* before call j.
CompletedBefore(k, j) ==
    /\ k + 3 < j
    /\ Is(k + 3, "kat.ant1.wait", "scan_status after") /\ Returned(k + 3)

\* Call k retrieves data of the interval from the start time, read after the
\* initial lock and before the first scan, to the end time, read after the
\* third scan.
RetrievesScannedInterval(k) ==
    /\ Cardinality(ScanRequests) = 3
    /\ \E s, f \in 1..(k - 1) :
          /\ Is(s, "time.time", "start_time") /\ Is(f, "time.time", "end_time")
          /\ PointedBefore(s)
          /\ \A j \in ScanRequests : s < j /\ CompletedBefore(j, f)
          /\ calls[k].rows = <<calls[s].rows[1], calls[f].rows[1]>>
          /\ calls[s].rows[1] <= calls[f].rows[1]

\* C11: inside the capture session of peak_finder.py capture_stop,
\* capture_setup and capture_start precede every antenna command; the
\* antenna is given the target and POINT mode and lock is awaited before the
\* first scan; at most three scans are requested, at offsets -0.5, 0, 0.5 in
\* that order, each as scan_asym, wait for lock, mode SCAN, wait for
\* scan_status 'after', none before the previous scan's wait has returned,
\* and exactly three in a run that ends normally; the history and the
\* signal display data are retrieved only after the third scan's wait, for
\* the interval from the start time read after the initial lock to the end
\* time read after the third scan.
C11_CommandsInFixedOrder ==
    script = "peak_finder" =>
        /\ \A k \in DOMAIN calls :
              calls[k].fn \in AntennaCommands => CaptureStartedBefore(k)
        /\ \A k \in ScanRequests :
              /\ PointedBefore(k)
              /\ Rank(k) <= 3 /\ calls[k].arg = ClaimedOffsets[Rank(k)]
              /\ ScanSteps(k)
              /\ \A j \in ScanRequests : j < k => CompletedBefore(j, k)
        /\ \A k \in DOMAIN calls :
              calls[k].fn \in Retrievals => RetrievesScannedInterval(k)
        /\ pc = "done" =>
              /\ Cardinality(ScanRequests) = 3
              /\ Cardinality({k \in DOMAIN calls : calls[k].fn \in Retrievals}) = 3

\* A run of peak_finder.py that went through its three scans, one of whose
\* waits timed out, and retrieved the data.
C11_Witness ==
    /\ script = "peak_finder" /\ pc = "done" /\ session = "closed"
    /\ Cardinality(ScanRequests) = 3
    /\ \E k \in ScanRequests : calls[k + 3].res = "False"
    /\ \E k \in DOMAIN calls :
          Is(k, "kat.dh.sd.select_data", "data") /\ calls[k].rows = <<1, 2>>

\* The requests peak_finder.py sends to the correlator and to the antenna.
HardwareRequests ==
    {"kat.dbe.req.k7w_write_hdf5", "kat.dbe.req.capture_stop",
     "kat.dbe.req.capture_setup", "kat.dbe.req.capture_start",
     "kat.ant1.req.target", "kat.ant1.req.mode", "kat.ant1.req.scan_asym"}

\* Call k opens (or tries to open) the capture session, or is a request.
HardwareCommand(k) ==
    calls[k].fn = "BasicCaptureSession" \/ calls[k].fn \in HardwareRequests

\* What the script tests before its capture session.
Preconditions ==
    /\ ~opts.ants.isNone
    /\ ~opts.observer.isNone
    /\ tgt \notin {"undefined", "None"}
    /\ ~kat.isNone
    /\ kat.v.sd

\* C12: peak_finder.py opens no capture session and sends no request to the
\* correlator or to an antenna unless -a and -o were given, tgt is assigned
\* and not None, a connection was built before and its signal display
\* session is running; a run in which one of these fails ends without a
\* hardware command.
C12_NoCommandWithoutPreconditions ==
    script = "peak_finder" =>
        /\ (session # "none" \/ \E k \in DOMAIN calls : HardwareCommand(k)) =>
              /\ Preconditions
              /\ \A k \in DOMAIN calls :
                    HardwareCommand(k) =>
                        \E b \in 1..(k - 1) : calls[b].fn = "tbuild" /\ calls[b].res = "ok"
        /\ (Ended /\ ~Preconditions) =>
              /\ session = "none"
              /\ \A k \in DOMAIN calls : ~HardwareCommand(k)
              /\ ~exit_status.isNone /\ exit_status.v # 0

\* A run that passed every test and sent a request to the antenna after a
\* connection built by the fallback.
C12_Witness ==
    /\ script = "peak_finder" /\ session = "open" /\ Preconditions
    /\ kat.v.config = "cfg-local.ini"
    /\ \E k \in DOMAIN calls : calls[k].fn = "kat.ant1.req.target"

====
